---- MODULE Spec2Model ----
(***************************************************************************)
(* Model of the Cyberion kernel-mode driver (src/Driver.c, src/Public.h).  *)
(*                                                                         *)
(* The driver keeps one pending IRP pointer (g_PendingIrp) protected by a  *)
(* spin lock (g_IrpQueueLock).  The process-creation callback completes    *)
(* the pending IRP with the creation record; the device-control dispatch   *)
(* routine stores an IRP or rejects it; the unload routine unregisters the *)
(* callback, cancels the pending IRP and deletes the device.               *)
(*                                                                         *)
(* Every routine that touches the shared globals is modelled statement by  *)
(* statement, so that the interleavings of the callback (any thread), the  *)
(* dispatch routine (the caller's thread) and load/unload are all there.   *)
(***************************************************************************)
EXTENDS Integers, Sequences, FiniteSets, TLC

\* ------------------------------------------------------------------ bounds

\* IRPs the user-mode service sends in one run (each IRP is used once).
MaxIrps == 2
\* Threads on which the OS may run the process-notify callback concurrently.
NumProducers == 2

\* ------------------------------------------------------- program constants

\* Public.h:45  #define MAX_PATH_SIZE 260
MAX_PATH_SIZE == 260
\* sizeof(WCHAR), the element of ImageFileName (Public.h:50)
SizeofWCHAR == 2
\* sizeof(HANDLE) on a 64-bit build (Public.h:48-49)
SizeofHANDLE == 8
\* sizeof(PROCESS_CREATION_INFO): two HANDLEs and WCHAR[MAX_PATH_SIZE]
SizeofInfo == 2 * SizeofHANDLE + MAX_PATH_SIZE * SizeofWCHAR

NULL == 0
NoTail == 0
IrpIds == 1 .. MaxIrps
Producers == 1 .. NumProducers

\* NTSTATUS values the driver uses
STATUS_SUCCESS == "STATUS_SUCCESS"
STATUS_PENDING == "STATUS_PENDING"
STATUS_DEVICE_BUSY == "STATUS_DEVICE_BUSY"
STATUS_INVALID_DEVICE_REQUEST == "STATUS_INVALID_DEVICE_REQUEST"
StatusUnset == "unset"

\* I/O control codes (Public.h:33-34); IoctlOther is any other code
IOCTL_CYBERION_GET_PROCESS_INFO == "GET_PROCESS_INFO"
IOCTL_CYBERION_SEND_RESPONSE == "SEND_RESPONSE"
IoctlOther == "OTHER"

\* USER_RESPONSE_TYPE (Public.h:57-60) as the integers the enum has
UserResponseAllow == 0
UserResponseBlock == 1

\* Threads, as owners of the spin lock
NoHolder == <<"none", 0>>
ProducerThread(t) == <<"callback", t>>
DispatchThread(i) == <<"dispatch", i>>

Min(a, b) == IF a <= b THEN a ELSE b

\* ------------------------------------------------------------------ inputs

\* CreateInfo->ImageFileName: NULL, or a UNICODE_STRING (a name and its
\* Length in bytes): paths of 5 units, of exactly MAX_PATH_SIZE units and of
\* 300 units
NoImageFileName == [name |-> "NULL", Length |-> 0]
ShortImageFileName == [name |-> "a.exe", Length |-> 10]
FullImageFileName == [name |-> "full.exe", Length |-> 520]
LongImageFileName == [name |-> "long.exe", Length |-> 600]
\* The process creations the OS reports (CreateInfo is present): process
\* id, parent's id and image file name
CreateEvents ==
    { [ProcessId |-> 100, ParentProcessId |-> 1,
       ImageFileName |-> ShortImageFileName],
      [ProcessId |-> 200, ParentProcessId |-> 100,
       ImageFileName |-> LongImageFileName],
      [ProcessId |-> 300, ParentProcessId |-> 1,
       ImageFileName |-> NoImageFileName],
      [ProcessId |-> 400, ParentProcessId |-> 1,
       ImageFileName |-> FullImageFileName] }
\* OutputBufferLength of a device-control request (METHOD_BUFFERED): none,
\* one HANDLE, or a whole PROCESS_CREATION_INFO
BufferLengths == {0, SizeofHANDLE, SizeofInfo}
\* USER_RESPONSE records the service may send: ProcessId 0 is "unset",
\* Response 2 is outside the enum
UserResponses ==
    { [ProcessId |-> 100, Response |-> 0], [ProcessId |-> 100, Response |-> 1],
      [ProcessId |-> 0, Response |-> 1], [ProcessId |-> 100, Response |-> 2] }
NoInput == [ProcessId |-> 0, Response |-> 0]

\* ------------------------------------------------------------------- state

VARIABLES
    loadpc,        \* DriverEntry's position
    unloadpc,      \* CyberionUnload's position
    g_DeviceObject,\* "NULL", "created" or "deleted"
    symlink,       \* the \DosDevices\Cyberion link exists
    registered,    \* ProcessNotifyCallback is registered with the OS
    g_IrpQueueLock,\* the spin lock's owner, or NoHolder
    g_PendingIrp,  \* NULL or the stored IRP
    irp,           \* the IRPs: their fields and system buffers
    completions,   \* per IRP, what each IoCompleteRequest handed back
    ppc,           \* per callback thread, its position in the callback
    pev,           \* per callback thread, the invocation's arguments
    dpc,           \* per IRP, the dispatch routine's position
    dstatus,       \* per IRP, the dispatch routine's local `status`
    corrupt,       \* a write went outside a live system buffer
    crashed        \* the kernel bug-checked

vars ==
    << loadpc, unloadpc, g_DeviceObject, symlink, registered, g_IrpQueueLock,
       g_PendingIrp, irp, completions, ppc, pev, dpc, dstatus,
       corrupt, crashed >>

lifecycleVars == << loadpc, unloadpc, g_DeviceObject, symlink, registered >>
producerVars == << ppc, pev >>
dispatchVars == << dpc, dstatus >>

\* The system buffer of an IRP before the driver writes it: METHOD_BUFFERED
\* allocates it from pool without clearing it, so it holds prior contents,
\* different for each allocation.  The ImageFileName array is described by
\* the path whose first `bytes` bytes it starts with and by what the bytes
\* after those hold: the prior contents of allocation `tail`, or nothing
\* (NoTail) when the path fills the array.
StaleBuffer(i) ==
    [ProcessId |-> -i, ParentProcessId |-> -i,
     ImageFileName |-> [name |-> "stale", bytes |-> 0, tail |-> i]]

FreshIrp(i) ==
    [issued |-> FALSE, code |-> IoctlOther, OutputBufferLength |-> 0,
     input |-> NoInput, Status |-> StatusUnset, Information |-> 0,
     PendingReturned |-> FALSE, Cancel |-> FALSE, freed |-> FALSE,
     buf |-> StaleBuffer(i)]

NoEvent ==
    [ProcessId |-> 0, ParentProcessId |-> 0,
     ImageFileName |-> NoImageFileName, pIrp |-> NULL, pInfo |-> NULL]

Init ==
    /\ loadpc = "IoCreateDevice"
    /\ unloadpc = "idle"
    /\ g_DeviceObject = "NULL"
    /\ symlink = FALSE
    /\ registered = FALSE
    /\ g_IrpQueueLock = NoHolder
    /\ g_PendingIrp = NULL
    /\ irp = [i \in IrpIds |-> FreshIrp(i)]
    /\ completions = [i \in IrpIds |-> << >>]
    /\ ppc = [t \in Producers |-> "idle"]
    /\ pev = [t \in Producers |-> NoEvent]
    /\ dpc = [i \in IrpIds |-> "idle"]
    /\ dstatus = [i \in IrpIds |-> STATUS_SUCCESS]
    /\ corrupt = FALSE
    /\ crashed = FALSE

\* ------------------------------------------------------------ OS services

\* IoCompleteRequest(Irp): the request is handed back to its issuer with
\* IoStatus and, for a buffered request, the system buffer's contents.  The
\* record also keeps whether the request was marked pending and whether the
\* calling thread `by` owned the spin lock at the call.
CompletionOf(r, by) ==
    [Status |-> r.Status, Information |-> r.Information, data |-> r.buf,
     input |-> r.input, code |-> r.code,
     waiter |-> r.PendingReturned,
     lockHeld |-> (g_IrpQueueLock = by)]

IoCompleteRequest(irps, comps, i, by) ==
    [comps EXCEPT ![i] = Append(@, CompletionOf(irps[i], by))]

\* After completion the I/O manager frees the IRP and its system buffer.
FreedIrp(irps, i) ==
    [FreshIrp(i) EXCEPT !.issued = TRUE, !.freed = TRUE,
                        !.code = irps[i].code, !.input = irps[i].input,
                        !.PendingReturned = irps[i].PendingReturned]

Completed(i) == Len(completions[i]) > 0

\* A request is Pending from IoMarkIrpPending until it is completed.
Pending(i) == irp[i].PendingReturned /\ ~irp[i].freed

\* KeAcquireInStackQueuedSpinLock: spins until the lock is free.
\* KeReleaseInStackQueuedSpinLock by its owner frees it.
LockFree == g_IrpQueueLock = NoHolder

\* --------------------------------------------------------------- DriverEntry

\* Driver.c:46-58
DE_IoCreateDevice ==
    /\ ~crashed
    /\ loadpc = "IoCreateDevice"
    /\ \E ok \in BOOLEAN :
        IF ok
        THEN /\ g_DeviceObject' = "created"
             /\ loadpc' = "IoCreateSymbolicLink"
        ELSE /\ g_DeviceObject' = g_DeviceObject
             /\ loadpc' = "failed"
    /\ UNCHANGED << unloadpc, symlink, registered, g_IrpQueueLock,
                    g_PendingIrp, irp, completions, producerVars,
                    dispatchVars, corrupt, crashed >>

\* Driver.c:61-67
DE_IoCreateSymbolicLink ==
    /\ ~crashed
    /\ loadpc = "IoCreateSymbolicLink"
    /\ \E ok \in BOOLEAN :
        IF ok
        THEN /\ symlink' = TRUE
             /\ g_DeviceObject' = g_DeviceObject
             /\ loadpc' = "PsSetCreateProcessNotifyRoutineEx"
        ELSE /\ symlink' = symlink
             /\ g_DeviceObject' = "deleted"
             /\ loadpc' = "failed"
    /\ UNCHANGED << unloadpc, registered, g_IrpQueueLock,
                    g_PendingIrp, irp, completions, producerVars,
                    dispatchVars, corrupt, crashed >>

\* A registration failure that returns without undoing the earlier steps
DE_Register_NoUnwind ==
    /\ ~crashed
    /\ loadpc = "PsSetCreateProcessNotifyRoutineEx"
    /\ \E ok \in BOOLEAN :
        IF ok
        THEN /\ registered' = TRUE
             /\ UNCHANGED << symlink, g_DeviceObject >>
             /\ loadpc' = "KeInitializeSpinLock"
        ELSE /\ registered' = registered
             /\ UNCHANGED << symlink, g_DeviceObject >>
             /\ loadpc' = "failed"
    /\ UNCHANGED << unloadpc, g_IrpQueueLock,
                    g_PendingIrp, irp, completions, producerVars,
                    dispatchVars, corrupt, crashed >>

\* Driver.c:70-83
DE_Register ==
    /\ ~crashed
    /\ loadpc = "PsSetCreateProcessNotifyRoutineEx"
    /\ \E ok \in BOOLEAN :
        IF ok
        THEN /\ registered' = TRUE
             /\ UNCHANGED << symlink, g_DeviceObject >>
             /\ loadpc' = "KeInitializeSpinLock"
        ELSE /\ registered' = registered
             /\ symlink' = FALSE
             /\ g_DeviceObject' = "deleted"
             /\ loadpc' = "failed"
    /\ UNCHANGED << unloadpc, g_IrpQueueLock,
                    g_PendingIrp, irp, completions, producerVars,
                    dispatchVars, corrupt, crashed >>

\* Driver.c:85-89.  KeInitializeSpinLock stores the free value in the lock
\* word whatever it held.
DE_KeInitializeSpinLock ==
    /\ ~crashed
    /\ loadpc = "KeInitializeSpinLock"
    /\ g_IrpQueueLock' = NoHolder
    /\ loadpc' = "loaded"
    /\ UNCHANGED << unloadpc, g_DeviceObject, symlink, registered,
                    g_PendingIrp, irp, completions, producerVars,
                    dispatchVars, corrupt, crashed >>

DriverEntry ==
    \/ DE_IoCreateDevice
    \/ DE_IoCreateSymbolicLink
    \/ DE_Register
    \/ DE_KeInitializeSpinLock

\* ------------------------------------------------- ProcessNotifyCallback

\* The IRP a statement `g_PendingIrp->...` of the callback works on: the
\* global is read again, or the value read at line 149 is reused (the
\* compiler may keep it in a register).  The two differ only when another
\* thread assigns g_PendingIrp meanwhile.
PointerRead(t) == {pev[t].pIrp, g_PendingIrp}

\* An exit notification that empties the slot
P_Exit_ClearsSlot(t) ==
    /\ ~crashed
    /\ registered
    /\ ppc[t] = "idle"
    /\ g_PendingIrp' = NULL
    /\ UNCHANGED << lifecycleVars, g_IrpQueueLock, irp, completions,
                    producerVars, dispatchVars, corrupt, crashed >>

\* Driver.c:135-143 and 167-168 with no CreateInfo: a process exit.  The
\* test of line 143 fails, the body is skipped and the callback returns: a
\* call that reads and writes nothing of the driver's state.
P_Exit(t) ==
    /\ ~crashed
    /\ registered
    /\ ppc[t] = "idle"
    /\ UNCHANGED vars

\* Driver.c:135-147 with CreateInfo: a process creation.  The OS calls the
\* registered callback on some thread (the threads are interchangeable: the
\* lowest idle one is taken) and the callback takes the spin lock.  The wait
\* for the lock changes nothing another thread reads, so the call and the
\* acquisition are one step.  ProcessId and CreateInfo are not read before
\* line 152 (the DbgPrint aside), so their values are drawn there.
P_Acquire(t) ==
    /\ ~crashed
    /\ registered
    /\ ppc[t] = "idle"
    /\ \A u \in Producers : u < t => ppc[u] # "idle"
    /\ LockFree
    /\ g_IrpQueueLock' = ProducerThread(t)
    /\ ppc' = [ppc EXCEPT ![t] = "check"]
    /\ UNCHANGED << lifecycleVars, g_PendingIrp, irp, completions, pev,
                    dispatchVars, corrupt, crashed >>

\* A publish that skips the test of line 149
P_Check_NoTest(t) ==
    /\ ~crashed
    /\ ppc[t] = "check"
    /\ pev' = [pev EXCEPT ![t].pIrp = g_PendingIrp]
    /\ ppc' = [ppc EXCEPT ![t] = "write"]
    /\ UNCHANGED << lifecycleVars, g_IrpQueueLock, g_PendingIrp, irp,
                    completions, dispatchVars,
                    corrupt, crashed >>

\* Driver.c:149 and 164: if (g_PendingIrp) { ... }
P_Check(t) ==
    /\ ~crashed
    /\ ppc[t] = "check"
    /\ IF g_PendingIrp # NULL
       THEN /\ pev' = [pev EXCEPT ![t].pIrp = g_PendingIrp]
            /\ ppc' = [ppc EXCEPT ![t] = "write"]
       ELSE /\ pev' = pev
            /\ ppc' = [ppc EXCEPT ![t] = "release"]
    /\ UNCHANGED << lifecycleVars, g_IrpQueueLock, g_PendingIrp, irp,
                    completions, dispatchVars, corrupt,
                    crashed >>

\* A copy whose bound leaves out sizeof(WCHAR)
CopyLength_Units(name) == Min(name.Length, MAX_PATH_SIZE)

\* The bytes RtlCopyMemory copies at line 157
CopyLength(name) == Min(name.Length, MAX_PATH_SIZE * SizeofWCHAR)

\* The bytes of the PROCESS_CREATION_INFO that lines 152-157 store for an
\* event: the two HANDLEs, and the copied part of the image file name
BytesStored(e) ==
    2 * SizeofHANDLE
      + (IF e.ImageFileName # NoImageFileName
         THEN CopyLength(e.ImageFileName) ELSE 0)

\* The record after lines 152-157: the first CopyLength bytes of
\* ImageFileName are overwritten; nothing is written there when the OS gives
\* no image name, and the bytes after the copy keep what the buffer held.
StoreEvent(buf, e) ==
    [ProcessId |-> e.ProcessId,
     ParentProcessId |-> e.ParentProcessId,
     ImageFileName |->
        IF e.ImageFileName # NoImageFileName
        THEN [name |-> e.ImageFileName.name,
              bytes |-> CopyLength(e.ImageFileName),
              tail |-> IF CopyLength(e.ImageFileName)
                            < MAX_PATH_SIZE * SizeofWCHAR
                       THEN buf.ImageFileName.tail ELSE NoTail]
        ELSE buf.ImageFileName]

\* Driver.c:150-158.  pInfo is the IRP's system buffer, which is NULL for a
\* request with no buffer; the record is stored without a look at the
\* buffer's length.  A store through the pointer to a freed IRP lands in
\* freed memory.
P_Write(t) ==
    /\ ~crashed
    /\ ppc[t] = "write"
    /\ \E p \in PointerRead(t), e \in CreateEvents :
        IF p = NULL \/ (~irp[p].freed /\ irp[p].OutputBufferLength = 0)
        THEN /\ crashed' = TRUE
             /\ UNCHANGED << irp, corrupt, ppc, pev >>
        ELSE /\ irp' = IF irp[p].freed THEN irp
                       ELSE [irp EXCEPT ![p].buf = StoreEvent(@, e)]
             /\ corrupt' = (corrupt \/ irp[p].freed
                            \/ irp[p].OutputBufferLength < BytesStored(e))
             /\ pev' = [pev EXCEPT ![t].ProcessId = e.ProcessId,
                                   ![t].ParentProcessId = e.ParentProcessId,
                                   ![t].ImageFileName = e.ImageFileName,
                                   ![t].pInfo = p]
             /\ ppc' = [ppc EXCEPT ![t] = "complete"]
             /\ crashed' = crashed
    /\ UNCHANGED << lifecycleVars, g_IrpQueueLock, g_PendingIrp,
                    completions, dispatchVars >>

\* Driver.c:160-163.  Completing an IRP that was completed already is a
\* bug check (MULTIPLE_IRP_COMPLETE_REQUESTS).
P_Complete(t) ==
    /\ ~crashed
    /\ ppc[t] = "complete"
    /\ \E p \in PointerRead(t) :
        IF p = NULL
        THEN /\ crashed' = TRUE
             /\ UNCHANGED << irp, completions, ppc, pev, g_PendingIrp >>
        ELSE LET done == [irp EXCEPT ![p].Status = STATUS_SUCCESS,
                                     ![p].Information = SizeofInfo] IN
             /\ completions' =
                    IoCompleteRequest(done, completions, p, ProducerThread(t))
             /\ irp' = [irp EXCEPT ![p] = FreedIrp(done, p)]
             /\ crashed' = irp[p].freed
             /\ g_PendingIrp' = NULL
             /\ pev' = [pev EXCEPT ![t] = NoEvent]
             /\ ppc' = [ppc EXCEPT ![t] = "release"]
    /\ UNCHANGED << lifecycleVars, g_IrpQueueLock, dispatchVars, corrupt >>

\* Driver.c:166.  A thread whose lock word was overwritten meanwhile finds
\* the lock not its own and spins in the release for ever.
P_Release(t) ==
    /\ ~crashed
    /\ ppc[t] = "release"
    /\ IF g_IrpQueueLock = ProducerThread(t)
       THEN /\ g_IrpQueueLock' = NoHolder
            /\ ppc' = [ppc EXCEPT ![t] = "idle"]
            /\ pev' = [pev EXCEPT ![t] = NoEvent]
       ELSE /\ g_IrpQueueLock' = g_IrpQueueLock
            /\ ppc' = [ppc EXCEPT ![t] = "hung"]
            /\ pev' = pev
    /\ UNCHANGED << lifecycleVars, g_PendingIrp, irp, completions,
                    dispatchVars, corrupt,
                    crashed >>

ProcessNotifyCallback(t) ==
    \/ P_Exit(t)
    \/ P_Acquire(t)
    \/ P_Check(t)
    \/ P_Write(t)
    \/ P_Complete(t)
    \/ P_Release(t)

\* ------------------------------------------------- CyberionDeviceControl

\* The I/O manager sends the driver a request: the device exists and
\* DriverEntry has returned.  IRPs are taken in order, each used once.
CanDispatch(i) ==
    /\ ~crashed
    /\ loadpc = "loaded"
    /\ g_DeviceObject = "created"
    /\ ~irp[i].issued
    /\ \A j \in IrpIds : j < i => irp[j].issued

\* Driver.c:183-184, 212, 226: the case the switch takes for a control code
IoControlCodes ==
    {IOCTL_CYBERION_GET_PROCESS_INFO, IOCTL_CYBERION_SEND_RESPONSE, IoctlOther}

SwitchCase(code) ==
    CASE code = IOCTL_CYBERION_GET_PROCESS_INFO -> "GET_PROCESS_INFO"
      [] code = IOCTL_CYBERION_SEND_RESPONSE -> "SEND_RESPONSE"
      [] OTHER -> "default"

\* Driver.c:180-189: case IOCTL_CYBERION_GET_PROCESS_INFO is entered and
\* the spin lock taken (one step, as in the callback)
DC_Acquire(i) ==
    /\ CanDispatch(i)
    /\ LockFree
    /\ \E code \in IoControlCodes, len \in BufferLengths :
        /\ SwitchCase(code) = "GET_PROCESS_INFO"
        /\ irp' = [irp EXCEPT ![i].issued = TRUE,
                              ![i].code = code,
                              ![i].OutputBufferLength = len]
    /\ g_IrpQueueLock' = DispatchThread(i)
    /\ dpc' = [dpc EXCEPT ![i] = "check"]
    /\ dstatus' = [dstatus EXCEPT ![i] = STATUS_SUCCESS]
    /\ UNCHANGED << lifecycleVars, g_PendingIrp, completions, producerVars,
                    corrupt, crashed >>

\* A dispatch routine that stores the IRP without the test of line 191
DC_Check_Overwrite(i) ==
    /\ ~crashed
    /\ dpc[i] = "check"
    /\ g_PendingIrp' = i
    /\ dstatus' = [dstatus EXCEPT ![i] = STATUS_PENDING]
    /\ irp' = [irp EXCEPT ![i].PendingReturned = TRUE]
    /\ dpc' = [dpc EXCEPT ![i] = "release"]
    /\ UNCHANGED << lifecycleVars, g_IrpQueueLock, completions,
                    producerVars, corrupt, crashed >>

\* Driver.c:191-199
DC_Check(i) ==
    /\ ~crashed
    /\ dpc[i] = "check"
    /\ IF g_PendingIrp # NULL
       THEN /\ dstatus' = [dstatus EXCEPT ![i] = STATUS_DEVICE_BUSY]
            /\ UNCHANGED << g_PendingIrp, irp >>
       ELSE /\ g_PendingIrp' = i
            /\ dstatus' = [dstatus EXCEPT ![i] = STATUS_PENDING]
            /\ irp' = [irp EXCEPT ![i].PendingReturned = TRUE]
    /\ dpc' = [dpc EXCEPT ![i] = "release"]
    /\ UNCHANGED << lifecycleVars, g_IrpQueueLock, completions,
                    producerVars, corrupt, crashed >>

\* Driver.c:201-204: the lock is released; a stored request is left
\* outstanding and the routine returns STATUS_PENDING
DC_Release(i) ==
    /\ ~crashed
    /\ dpc[i] = "release"
    /\ IF g_IrpQueueLock = DispatchThread(i)
       THEN /\ g_IrpQueueLock' = NoHolder
            /\ dpc' = [dpc EXCEPT ![i] =
                   IF dstatus[i] # STATUS_PENDING THEN "complete"
                   ELSE "returned"]
       ELSE /\ g_IrpQueueLock' = g_IrpQueueLock
            /\ dpc' = [dpc EXCEPT ![i] = "hung"]
    /\ UNCHANGED << lifecycleVars, g_PendingIrp, irp, completions,
                    producerVars, dstatus, corrupt, crashed >>

\* Driver.c:203-208 and 234: the request that was not stored is completed
DC_Complete(i) ==
    /\ ~crashed
    /\ dpc[i] = "complete"
    /\ LET done == [irp EXCEPT ![i].Status = dstatus[i],
                               ![i].Information = 0] IN
        /\ irp' = [irp EXCEPT ![i] = FreedIrp(done, i)]
        /\ completions' =
               IoCompleteRequest(done, completions, i, DispatchThread(i))
    /\ dpc' = [dpc EXCEPT ![i] = "returned"]
    /\ UNCHANGED << lifecycleVars, g_IrpQueueLock, g_PendingIrp,
                    producerVars, dstatus, corrupt, crashed >>

\* A SEND_RESPONSE case that acts on a Block verdict: it empties the slot
DC_SendResponse_Enforce(i) ==
    /\ CanDispatch(i)
    /\ \E code \in IoControlCodes, r \in UserResponses :
        LET done == [irp EXCEPT ![i].issued = TRUE,
                                ![i].code = code,
                                ![i].input = r,
                                ![i].Status = STATUS_SUCCESS,
                                ![i].Information = 0] IN
        /\ SwitchCase(code) = "SEND_RESPONSE"
        /\ irp' = [irp EXCEPT ![i] = FreedIrp(done, i)]
        /\ completions' =
               IoCompleteRequest(done, completions, i, DispatchThread(i))
        /\ g_PendingIrp' = IF r.Response = UserResponseBlock THEN NULL
                           ELSE g_PendingIrp
    /\ dpc' = [dpc EXCEPT ![i] = "returned"]
    /\ dstatus' = [dstatus EXCEPT ![i] = STATUS_SUCCESS]
    /\ UNCHANGED << lifecycleVars, g_IrpQueueLock,
                    producerVars, corrupt, crashed >>

\* Driver.c:212-224 and 234: case IOCTL_CYBERION_SEND_RESPONSE, whole.  The
\* USER_RESPONSE record in the system buffer is not read.
DC_SendResponse(i) ==
    /\ CanDispatch(i)
    /\ \E code \in IoControlCodes, r \in UserResponses :
        LET done == [irp EXCEPT ![i].issued = TRUE,
                                ![i].code = code,
                                ![i].input = r,
                                ![i].Status = STATUS_SUCCESS,
                                ![i].Information = 0] IN
        /\ SwitchCase(code) = "SEND_RESPONSE"
        /\ irp' = [irp EXCEPT ![i] = FreedIrp(done, i)]
        /\ completions' =
               IoCompleteRequest(done, completions, i, DispatchThread(i))
    /\ dpc' = [dpc EXCEPT ![i] = "returned"]
    /\ dstatus' = [dstatus EXCEPT ![i] = STATUS_SUCCESS]
    /\ UNCHANGED << lifecycleVars, g_IrpQueueLock, g_PendingIrp,
                    producerVars, corrupt, crashed >>

\* A default case that reports success
DC_Default_Success(i) ==
    /\ CanDispatch(i)
    /\ \E code \in IoControlCodes :
        LET done == [irp EXCEPT ![i].issued = TRUE,
                                ![i].code = code,
                                ![i].Status = STATUS_SUCCESS,
                                ![i].Information = 0] IN
        /\ SwitchCase(code) = "default"
        /\ irp' = [irp EXCEPT ![i] = FreedIrp(done, i)]
        /\ completions' =
               IoCompleteRequest(done, completions, i, DispatchThread(i))
    /\ dpc' = [dpc EXCEPT ![i] = "returned"]
    /\ dstatus' = [dstatus EXCEPT ![i] = STATUS_SUCCESS]
    /\ UNCHANGED << lifecycleVars, g_IrpQueueLock, g_PendingIrp,
                    producerVars, corrupt, crashed >>

\* Driver.c:226-234: default, whole
DC_Default(i) ==
    /\ CanDispatch(i)
    /\ \E code \in IoControlCodes :
        LET done == [irp EXCEPT ![i].issued = TRUE,
                                ![i].code = code,
                                ![i].Status = STATUS_INVALID_DEVICE_REQUEST,
                                ![i].Information = 0] IN
        /\ SwitchCase(code) = "default"
        /\ irp' = [irp EXCEPT ![i] = FreedIrp(done, i)]
        /\ completions' =
               IoCompleteRequest(done, completions, i, DispatchThread(i))
    /\ dpc' = [dpc EXCEPT ![i] = "returned"]
    /\ dstatus' = [dstatus EXCEPT ![i] = STATUS_INVALID_DEVICE_REQUEST]
    /\ UNCHANGED << lifecycleVars, g_IrpQueueLock, g_PendingIrp,
                    producerVars, corrupt, crashed >>

CyberionDeviceControl(i) ==
    \/ DC_Acquire(i)
    \/ DC_Check(i)
    \/ DC_Release(i)
    \/ DC_Complete(i)
    \/ DC_SendResponse(i)
    \/ DC_Default(i)

\* ----------------------------------------------------------- CyberionUnload

\* IoCancelIrp(Irp) sets Irp->Cancel and calls the IRP's cancel routine when
\* it has one; with none it returns FALSE and the IRP stays outstanding.
\* The driver never sets a cancel routine (no IoSetCancelRoutine in
\* Driver.c), so the IRP is marked and not completed.
IoCancelIrp(irps, p) == [irps EXCEPT ![p].Cancel = TRUE]

\* An unload routine that cancels before it unregisters the callback
UnloadOrder_CancelFirst == << "cancel", "unregister", "cleanup" >>

\* Driver.c:103-114: the order of CyberionUnload's three parts
UnloadOrder == << "unregister", "cancel", "cleanup" >>

FirstPcOf(part) ==
    CASE part = "unregister" -> "PsSetCreateProcessNotifyRoutineEx"
      [] part = "cancel" -> "check"
      [] part = "cleanup" -> "IoDeleteSymbolicLink"

\* Where CyberionUnload goes after a part
After(part) ==
    LET k == CHOOSE n \in 1 .. Len(UnloadOrder) : UnloadOrder[n] = part IN
    IF k < Len(UnloadOrder) THEN FirstPcOf(UnloadOrder[k + 1]) ELSE "done"

\* Driver.c:95-101: the OS calls the unload routine of the loaded driver
U_Begin ==
    /\ ~crashed
    /\ loadpc = "loaded"
    /\ unloadpc = "idle"
    /\ unloadpc' = FirstPcOf(UnloadOrder[1])
    /\ UNCHANGED << loadpc, g_DeviceObject, symlink, registered,
                    g_IrpQueueLock, g_PendingIrp, irp, completions,
                    producerVars, dispatchVars, corrupt, crashed >>

\* Driver.c:104, the call: the callback is removed, no new invocation starts
U_Unregister ==
    /\ ~crashed
    /\ unloadpc = "PsSetCreateProcessNotifyRoutineEx"
    /\ registered' = FALSE
    /\ unloadpc' = "drain"
    /\ UNCHANGED << loadpc, g_DeviceObject, symlink,
                    g_IrpQueueLock, g_PendingIrp, irp, completions,
                    producerVars, dispatchVars, corrupt, crashed >>

\* Driver.c:104, the return: the removal waits for the invocations that are
\* running to return
U_Drain ==
    /\ ~crashed
    /\ unloadpc = "drain"
    /\ \A t \in Producers : ppc[t] = "idle"
    /\ unloadpc' = After("unregister")
    /\ UNCHANGED << loadpc, g_DeviceObject, symlink, registered,
                    g_IrpQueueLock, g_PendingIrp, irp, completions,
                    producerVars, dispatchVars, corrupt, crashed >>

\* Driver.c:107: if (g_PendingIrp), read without the lock
U_Check ==
    /\ ~crashed
    /\ unloadpc = "check"
    /\ unloadpc' = IF g_PendingIrp # NULL THEN "IoCancelIrp"
                   ELSE After("cancel")
    /\ UNCHANGED << loadpc, g_DeviceObject, symlink, registered,
                    g_IrpQueueLock, g_PendingIrp, irp, completions,
                    producerVars, dispatchVars, corrupt, crashed >>

\* Driver.c:108-109
U_Cancel ==
    /\ ~crashed
    /\ unloadpc = "IoCancelIrp"
    /\ IF g_PendingIrp = NULL
       THEN /\ crashed' = TRUE
            /\ UNCHANGED << irp, unloadpc, g_PendingIrp >>
       ELSE /\ irp' = IoCancelIrp(irp, g_PendingIrp)
            /\ g_PendingIrp' = NULL
            /\ unloadpc' = After("cancel")
            /\ crashed' = crashed
    /\ UNCHANGED << loadpc, g_DeviceObject, symlink, registered,
                    g_IrpQueueLock, completions,
                    producerVars, dispatchVars, corrupt >>

\* Driver.c:112-115
U_Cleanup ==
    /\ ~crashed
    /\ unloadpc = "IoDeleteSymbolicLink"
    /\ symlink' = FALSE
    /\ g_DeviceObject' = "deleted"
    /\ unloadpc' = After("cleanup")
    /\ UNCHANGED << loadpc, registered,
                    g_IrpQueueLock, g_PendingIrp, irp, completions,
                    producerVars, dispatchVars, corrupt, crashed >>

CyberionUnload ==
    \/ U_Begin
    \/ U_Unregister
    \/ U_Drain
    \/ U_Check
    \/ U_Cancel
    \/ U_Cleanup

Next ==
    \/ DriverEntry
    \/ \E t \in Producers : ProcessNotifyCallback(t)
    \/ \E i \in IrpIds : CyberionDeviceControl(i)
    \/ CyberionUnload

Spec == Init /\ [][Next]_vars

\* The driver as DriverEntry leaves it when every step succeeded and no
\* process was created during the load: the state at line 89.
InitLoaded ==
    /\ loadpc = "loaded"
    /\ unloadpc = "idle"
    /\ g_DeviceObject = "created"
    /\ symlink = TRUE
    /\ registered = TRUE
    /\ g_IrpQueueLock = NoHolder
    /\ g_PendingIrp = NULL
    /\ irp = [i \in IrpIds |-> FreshIrp(i)]
    /\ completions = [i \in IrpIds |-> << >>]
    /\ ppc = [t \in Producers |-> "idle"]
    /\ pev = [t \in Producers |-> NoEvent]
    /\ dpc = [i \in IrpIds |-> "idle"]
    /\ dstatus = [i \in IrpIds |-> STATUS_SUCCESS]
    /\ corrupt = FALSE
    /\ crashed = FALSE

NextLoaded ==
    \/ \E t \in Producers : ProcessNotifyCallback(t)
    \/ \E i \in IrpIds : CyberionDeviceControl(i)
    \/ CyberionUnload

\* The loaded driver: the behaviours of Spec from that state on
SpecLoaded == InitLoaded /\ [][NextLoaded]_vars

\* Scheduling: a thread that is inside a routine of the driver goes on
\* running it (the callback and the dispatch routine spin or run at raised
\* IRQL, the unload routine is a system thread).  Nothing is assumed of
\* when the OS reports a process or the service sends a request.
Fairness ==
    /\ \A t \in Producers :
          WF_vars(P_Check(t) \/ P_Write(t) \/ P_Complete(t) \/ P_Release(t))
    /\ \A i \in IrpIds :
          WF_vars(DC_Check(i) \/ DC_Release(i) \/ DC_Complete(i))
    /\ WF_vars(U_Unregister \/ U_Drain \/ U_Check \/ U_Cancel \/ U_Cleanup)

\* The loaded driver under that scheduling
FairSpecLoaded == SpecLoaded /\ Fairness

\* ------------------------------------------------------------------ claims

PendingIrps == {i \in IrpIds : Pending(i)}

\* C1: at most one WaitForNextEvent request is Pending system-wide, and the
\* slot is either Empty or holds exactly that one Pending request.
C1_SingleSlot ==
    /\ Cardinality(PendingIrps) <= 1
    /\ g_PendingIrp # NULL => PendingIrps = {g_PendingIrp}

\* The image path a record carries is the published one, cut to the copy's
\* length (nothing is said of a creation that has no image file name).
PathDelivered(data, name) ==
    name # NoImageFileName =>
        /\ data.ImageFileName.name = name.name
        /\ data.ImageFileName.bytes = CopyLength(name)

\* The completion record that hands the callback's event to a waiter
DeliversEvent(rec, e) ==
    /\ rec.waiter
    /\ rec.Status = STATUS_SUCCESS
    /\ rec.data.ProcessId = e.ProcessId
    /\ rec.data.ParentProcessId = e.ParentProcessId
    /\ PathDelivered(rec.data, e.ImageFileName)

\* C2, no request is completed twice, and a publish that found a waiter
\* does not stop (bug check) before it has completed it.
C2_State ==
    /\ \A i \in IrpIds : Len(completions[i]) <= 1
    /\ \A t \in Producers : ppc[t] \in {"write", "complete"} => ~crashed

\* C2, the steps of a publish that found a waiter: the completion hands
\* over exactly the event of this invocation and leaves the slot Empty.
C2_Step ==
    \A t \in Producers :
        (ppc[t] = "complete" /\ ppc'[t] # "complete") =>
              /\ Len(completions'[pev[t].pIrp]) = 1
              /\ DeliversEvent(completions'[pev[t].pIrp][1], pev[t])
              /\ g_PendingIrp' = NULL

\* C2: a waiter that is registered when a publish runs is completed
\* successfully with exactly the published event, exactly once, and the slot
\* is Empty after the publish.
C2_WaiterGetsEventOnce == []C2_State /\ [][C2_Step]_vars

\* What a publish never touches when it finds the slot Empty
DropFrame(t) ==
    /\ UNCHANGED << lifecycleVars, g_PendingIrp, irp, completions,
                    dispatchVars, corrupt, crashed >>
    /\ \A u \in Producers : u # t => pev'[u] = pev[u] /\ ppc'[u] = ppc[u]

\* C3, the steps of a publish that finds the slot Empty: the invocation
\* goes straight to the release of the lock and returns, leaving every
\* variable but the lock and its own position as it was.
C3_Step ==
    \A t \in Producers :
        /\ (ppc[t] = "check" /\ g_PendingIrp = NULL /\ ppc'[t] # "check") =>
              /\ ppc'[t] = "release"
              /\ pev'[t] = NoEvent
              /\ g_IrpQueueLock' = g_IrpQueueLock
              /\ DropFrame(t)
        /\ (ppc[t] = "release" /\ ppc'[t] # "release") =>
              /\ ppc'[t] \in {"idle", "hung"}
              /\ ppc'[t] = "idle" => pev'[t] = NoEvent
              /\ DropFrame(t)

\* C3, the state: only an invocation that found a request in the slot, a
\* request registered before its test, is on the way to a completion.
C3_State ==
    \A t \in Producers :
        ppc[t] \in {"write", "complete"} =>
            /\ pev[t].pIrp # NULL
            /\ irp[pev[t].pIrp].PendingReturned \/ irp[pev[t].pIrp].freed

\* C3: a publish that runs while the slot is Empty is Dropped: the slot
\* stays Empty, no request is completed, no buffer is written and nothing of
\* the event is kept.
C3_EmptyPublishDropped == []C3_State /\ [][C3_Step]_vars

\* C3's case: a callback has found the slot Empty and is about to return,
\* with a request that was issued before still not stored.
C3_Witness ==
    \E t \in Producers :
        /\ ppc[t] = "release"
        /\ g_PendingIrp = NULL
        /\ \A i \in IrpIds : completions[i] = << >>
        /\ loadpc = "loaded"

\* The dispatch routine's step for IRP i leaves every other request alone
OthersUntouched(i) ==
    \A j \in IrpIds : j # i =>
        irp'[j] = irp[j] /\ completions'[j] = completions[j]

\* C4, the steps of a WaitForNextEvent request that finds the slot
\* occupied: the test takes the busy status and stores nothing, and the
\* request is then completed with STATUS_DEVICE_BUSY and no output, the slot
\* and the request in it being left as they were.
C4_Step ==
    \A i \in IrpIds :
        /\ (dpc[i] = "check" /\ g_PendingIrp # NULL /\ dpc'[i] # "check") =>
              /\ dstatus'[i] = STATUS_DEVICE_BUSY
              /\ g_PendingIrp' = g_PendingIrp
              /\ irp' = irp
              /\ completions' = completions
        /\ (dpc[i] = "complete" /\ dpc'[i] # "complete"
                /\ dstatus[i] = STATUS_DEVICE_BUSY) =>
              /\ Len(completions'[i]) = 1
              /\ completions'[i][1].Status = STATUS_DEVICE_BUSY
              /\ completions'[i][1].Information = 0
              /\ ~completions'[i][1].waiter
              /\ g_PendingIrp' = g_PendingIrp
              /\ OthersUntouched(i)

\* C4, the state: a request that took the busy status is never the one in
\* the slot and is never marked pending.
C4_State ==
    \A i \in IrpIds :
        dstatus[i] = STATUS_DEVICE_BUSY =>
            g_PendingIrp # i /\ ~irp[i].PendingReturned

\* C4: a WaitForNextEvent request that arrives while another is Pending is
\* completed at once with the device-busy failure and zero output, is never
\* stored in the slot, and leaves the first request Pending in the slot.
C4_SecondWaiterBusy == []C4_State /\ [][C4_Step]_vars

\* C4's case: the second request has been completed busy while the first is
\* Pending and is the one in the slot.
C4_Witness ==
    \E i, j \in IrpIds :
        /\ i # j
        /\ g_PendingIrp = j
        /\ Pending(j)
        /\ Len(completions[i]) = 1
        /\ completions[i][1].Status = STATUS_DEVICE_BUSY

\* The status of a request completed as cancelled
STATUS_CANCELLED == "STATUS_CANCELLED"

\* C5, the steps of the unload routine's cancel: the test with the slot
\* Empty, and the cancellation of the request in the slot.
C5_Step ==
    /\ (unloadpc = "check" /\ unloadpc' # "check" /\ g_PendingIrp = NULL) =>
          UNCHANGED << g_PendingIrp, irp, completions >>
    /\ (unloadpc = "IoCancelIrp" /\ unloadpc' # "IoCancelIrp") =>
          /\ g_PendingIrp' = NULL
          /\ Len(completions'[g_PendingIrp]) = 1
          /\ completions'[g_PendingIrp][1].Status = STATUS_CANCELLED

\* C5: cancel() at Detach changes nothing when the slot is Empty; when the
\* slot holds a Pending waiter, that request is completed with a Cancelled
\* result and the slot is Empty afterwards.
C5_CancelResumesWaiter == [][C5_Step]_vars

\* C6: the lock is not held by the completing thread at the moment a
\* waiter's request is completed.
C6_LockNotHeldAtCompletion ==
    \A i \in IrpIds :
        \A k \in 1 .. Len(completions[i]) :
            completions[i][k].waiter => ~completions[i][k].lockHeld

\* C7, a step that changes the slot: the thread that takes it holds the
\* lock (the dispatch routine of the request stored, or the callback that
\* empties the slot).
C7_Step ==
    g_PendingIrp' # g_PendingIrp =>
        IF g_PendingIrp' # NULL
        THEN g_IrpQueueLock = DispatchThread(g_PendingIrp')
        ELSE \E t \in Producers :
                /\ ppc[t] = "complete" /\ ppc'[t] = "release"
                /\ g_IrpQueueLock = ProducerThread(t)

\* C7: the slot is mutated only by a thread that holds the lock, in
\* registerWaiter, in publish and in cancel alike.
C7_SlotMutatedUnderLock == [][C7_Step]_vars

UnloadStarted == unloadpc # "idle"
\* CyberionUnload is at or past the test of line 107
CancelStarted == unloadpc \in {"check", "IoCancelIrp"} \/ g_DeviceObject = "deleted"
                    \/ (UnloadStarted /\ ~symlink)
CallbackRunning == \E t \in Producers : ppc[t] # "idle"

\* C8: Detach unregisters the callback, then cancels, then releases the
\* name and the device: from the start of the cancel step on the callback is
\* not registered and no invocation of it is running, and the name and the
\* device are there until the cancel step is over.
C8_DetachOrder ==
    /\ CancelStarted => ~registered /\ ~CallbackRunning
    /\ (UnloadStarted /\ unloadpc \in {"PsSetCreateProcessNotifyRoutineEx",
                                       "drain", "check", "IoCancelIrp"}) =>
           symlink /\ g_DeviceObject = "created"
    /\ unloadpc = "done" => ~symlink /\ g_DeviceObject = "deleted"

\* C8's case: Detach has run to its end after a publish delivered an event
\* and with a request that its cancel step acted on.
C8_Witness ==
    /\ unloadpc = "done"
    /\ \E i \in IrpIds : irp[i].Cancel
    /\ \E i \in IrpIds : Len(completions[i]) = 1 /\ completions[i][1].waiter

\* USER_RESPONSE is well-formed: ProcessId set, Response one of the enum's
WellFormed(r) ==
    r.ProcessId # 0 /\ r.Response \in {UserResponseAllow, UserResponseBlock}

\* C9: SubmitDecision completes a well-formed record successfully and fails
\* a malformed one.
C9_DecisionValidated ==
    \A i \in IrpIds :
        \A k \in 1 .. Len(completions[i]) :
            SwitchCase(completions[i][k].code) = "SEND_RESPONSE" =>
                (completions[i][k].Status = STATUS_SUCCESS
                    <=> WellFormed(completions[i][k].input))

\* C10, the step that takes a request whose control code is neither of the
\* two: the request is completed in it, and the slot, the lock, the request
\* in the slot and every other request are left as they were.
C10_Step ==
    \A i \in IrpIds :
        (~irp[i].issued /\ irp'[i].issued
            /\ irp'[i].code \notin {IOCTL_CYBERION_GET_PROCESS_INFO,
                                    IOCTL_CYBERION_SEND_RESPONSE}) =>
            /\ dpc'[i] = "returned"
            /\ dstatus'[i] = STATUS_INVALID_DEVICE_REQUEST
            /\ Len(completions'[i]) = 1
            /\ completions'[i][1].Status = STATUS_INVALID_DEVICE_REQUEST
            /\ completions'[i][1].Information = 0
            /\ ~completions'[i][1].waiter
            /\ g_PendingIrp' = g_PendingIrp
            /\ g_PendingIrp # i
            /\ g_IrpQueueLock' = g_IrpQueueLock
            /\ OthersUntouched(i)

\* C10: a request with any other control code is completed at once with
\* STATUS_INVALID_DEVICE_REQUEST and zero output, and changes nothing of the
\* mailbox.
C10_UnknownCodeRejected == [][C10_Step]_vars

\* C10's case: a request with an unknown code has been rejected while a
\* waiter is Pending in the slot.
C10_Witness ==
    \E i, j \in IrpIds :
        /\ i # j
        /\ g_PendingIrp = j
        /\ Pending(j)
        /\ Len(completions[i]) = 1
        /\ completions[i][1].Status = STATUS_INVALID_DEVICE_REQUEST

\* What DriverEntry's steps never touch: the mailbox, the requests and the
\* callback threads
AttachFrame ==
    UNCHANGED << unloadpc, g_PendingIrp, irp, completions, producerVars,
                 dispatchVars, corrupt, crashed >>

\* C11, the failing step of DriverEntry: what the earlier steps made is
\* undone in that step (the device after a failed link, the link and the
\* device after a failed registration), and the callback is not registered.
C11_Step ==
    (loadpc # "failed" /\ loadpc' = "failed") =>
        /\ ~symlink'
        /\ ~registered'
        /\ g_DeviceObject' = (IF g_DeviceObject = "created" THEN "deleted"
                              ELSE g_DeviceObject)
        /\ AttachFrame

\* C11, the state after a failed DriverEntry: no callback registered or
\* running, no device, no link, and the driver takes no request and is not
\* unloaded (it was never loaded).
C11_State ==
    loadpc = "failed" =>
        /\ ~registered
        /\ ~symlink
        /\ g_DeviceObject # "created"
        /\ \A t \in Producers : ppc[t] = "idle"
        /\ \A i \in IrpIds : ~irp[i].issued
        /\ unloadpc = "idle"

\* C11: if a step of Attach fails, every step that had succeeded is undone
\* and the failure returned; afterwards no EventSource is registered and no
\* device or name remains exposed.
C11_AttachUnwinds == []C11_State /\ [][C11_Step]_vars

\* C11's case: DriverEntry has failed after it had created the device.
C11_Witness ==
    loadpc = "failed" /\ g_DeviceObject = "deleted"

\* The UTF-16 code units in a number of bytes
Units(bytes) == bytes \div SizeofWCHAR

\* The events that were published with an image path
NamedEvents == {e \in CreateEvents : e.ImageFileName # NoImageFileName}

\* The records handed to waiters
Deliveries ==
    {c \in UNION {{completions[i][k] : k \in 1 .. Len(completions[i])}
                     : i \in IrpIds} : c.waiter}

\* C12: the path in a record handed to a waiter is the first
\* min(length, 260) code units of the published path, no more and no fewer,
\* whoever the waiter and whenever the publish: the delivered length is a
\* function of the published path alone, so the same path is cut the same
\* way each time.
C12_PathTruncated ==
    \A c \in Deliveries : \A e \in NamedEvents :
        c.data.ImageFileName.name = e.ImageFileName.name =>
            /\ Units(c.data.ImageFileName.bytes) =
                   Min(Units(e.ImageFileName.Length), 260)
            /\ c.data.ImageFileName.bytes =
                   SizeofWCHAR * Units(c.data.ImageFileName.bytes)

\* C12's case: two waiters, each with a buffer that holds a record, have
\* both been handed the path of 300 units, cut to 260.
C12_Witness ==
    /\ ~corrupt
    /\ \A i \in IrpIds :
          /\ Len(completions[i]) = 1
          /\ completions[i][1].waiter
          /\ completions[i][1].data.ImageFileName.name = LongImageFileName.name
          /\ Units(LongImageFileName.Length) = 300
          /\ Units(completions[i][1].data.ImageFileName.bytes) = 260

\* Where a WaitForNextEvent request stands: not yet sent, Issued (in the
\* dispatch routine, not stored), Pending (marked pending, not completed and
\* the one in the slot), or Completed once with one of the three outcomes
\* and out of the slot.  Anything else is "none".
RequestState(i) ==
    LET done == completions[i] IN
    CASE ~irp[i].issued -> "Unissued"
      [] irp[i].issued /\ done = << >> /\ ~irp[i].PendingReturned
            /\ g_PendingIrp # i -> "Issued"
      [] done = << >> /\ Pending(i) /\ g_PendingIrp = i -> "Pending"
      [] Len(done) = 1 /\ g_PendingIrp # i /\ done[1].waiter
            /\ done[1].Status = STATUS_SUCCESS -> "CompletedEvent"
      [] Len(done) = 1 /\ g_PendingIrp # i /\ done[1].waiter
            /\ done[1].Status = STATUS_CANCELLED -> "CompletedCancelled"
      [] Len(done) = 1 /\ g_PendingIrp # i /\ ~done[1].waiter
            /\ done[1].Status = STATUS_DEVICE_BUSY -> "CompletedBusy"
      [] OTHER -> "none"

\* The arrows of the request's state machine
RequestArrows ==
    { << "Unissued", "Issued" >>, << "Issued", "Pending" >>,
      << "Issued", "CompletedBusy" >>, << "Pending", "CompletedEvent" >>,
      << "Pending", "CompletedCancelled" >> }

WaitRequests ==
    {i \in IrpIds :
        irp[i].issued /\ SwitchCase(irp[i].code) = "GET_PROCESS_INFO"}

\* C13, the state: every WaitForNextEvent request is in one of the states
\* of the machine.
C13_State == \A i \in WaitRequests : RequestState(i) # "none"

\* C13, the steps: a request changes state only along an arrow.
C13_Step ==
    \A i \in IrpIds :
        (i \in WaitRequests' /\ RequestState(i)' # RequestState(i)) =>
            << RequestState(i), RequestState(i)' >> \in RequestArrows

\* C13: each WaitForNextEvent request goes Issued -> Pending ->
\* Completed(event) or Completed(cancelled), or Issued -> Completed(busy):
\* it is completed at most once, with one of the three outcomes, and once
\* Completed it is never in the slot again.
C13_RequestStateMachine == []C13_State /\ [][C13_Step]_vars

\* C14: a process-exit notification (no creation info) does not take the
\* lock, does not change the slot and does not complete a Pending waiter,
\* whether the slot is Empty or occupied: the step of an exit notification
\* leaves the lock, the slot, every request and every callback thread as
\* they were.
C14_ExitNotificationNoOp ==
    [][\A t \in Producers :
          P_Exit(t) =>
              UNCHANGED << g_IrpQueueLock, g_PendingIrp, irp, completions,
                           producerVars >>]_vars

\* C14's case: the callback is registered and a thread is free to run an
\* exit notification while a waiter is Pending in the slot and another
\* thread owns the lock.
C14_Witness ==
    /\ ~crashed
    /\ registered
    /\ \E t \in Producers : ppc[t] = "idle"
    /\ g_PendingIrp # NULL
    /\ Pending(g_PendingIrp)
    /\ ~LockFree

\* The step in which the dispatch routine takes request i as a
\* SubmitDecision with verdict v
SubmitsDecision(i, v) ==
    /\ ~irp[i].issued
    /\ irp'[i].issued
    /\ irp'[i].code = IOCTL_CYBERION_SEND_RESPONSE
    /\ irp'[i].input.Response = v

\* C15, the step that takes a SubmitDecision: for either verdict it
\* completes the request and nothing else.
C15_Step ==
    \A i \in IrpIds : \A v \in {UserResponseAllow, UserResponseBlock} :
        SubmitsDecision(i, v) =>
            /\ g_PendingIrp' = g_PendingIrp
            /\ g_PendingIrp # i
            /\ g_IrpQueueLock' = g_IrpQueueLock
            /\ OthersUntouched(i)
            /\ Len(completions'[i]) = 1
            /\ ~completions'[i][1].waiter
            /\ PendingIrps' = PendingIrps
            /\ UNCHANGED << lifecycleVars, producerVars, corrupt, crashed >>

\* C15: SubmitDecision is an acknowledgement only.  For either verdict
\* (Allow or Block) it changes no state: the slot, the lock, every other
\* request (a Pending waiter among them), the callback threads and the
\* driver's lifecycle are the same before and after it, and a Pending waiter
\* is not completed by it.
C15_DecisionAcknowledgedOnly == [][C15_Step]_vars

\* C15's case: a Block verdict has been acknowledged while a waiter is
\* Pending in the slot.
C15_Witness ==
    \E i, j \in IrpIds :
        /\ i # j
        /\ g_PendingIrp = j
        /\ Pending(j)
        /\ Len(completions[i]) = 1
        /\ completions[i][1].code = IOCTL_CYBERION_SEND_RESPONSE
        /\ completions[i][1].input.Response = UserResponseBlock

\* The callback threads that found a waiter and are delivering to it
Delivering == {t \in Producers : ppc[t] \in {"write", "complete"}}

\* C16, the state: of the publishes that run at the same time at most one
\* is delivering (the others wait for the lock or are Dropped), and no
\* request is completed twice.
C16_State ==
    /\ Cardinality(Delivering) <= 1
    /\ \A i \in IrpIds : Len(completions[i]) <= 1

\* C16, the completing step: the record handed over is, field by field, the
\* event of the publish that completes.
C16_Step ==
    \A t \in Producers :
        (ppc[t] = "complete" /\ ppc'[t] = "release") =>
            \E p \in PointerRead(t) :
                /\ p # NULL
                /\ Len(completions'[p]) = Len(completions[p]) + 1
                /\ LET rec == completions'[p][Len(completions'[p])] IN
                     /\ rec.waiter
                     /\ rec.data.ProcessId = pev[t].ProcessId
                     /\ rec.data.ParentProcessId = pev[t].ParentProcessId
                     /\ PathDelivered(rec.data, pev[t].ImageFileName)

\* C16: when several publishes run concurrently while one waiter is
\* Pending, exactly one delivers and the others are Dropped; the waiter is
\* completed once, with the whole event of the delivering publish and no
\* field of another.
C16_OneConcurrentPublishDelivers == []C16_State /\ [][C16_Step]_vars

\* C17, the steps: a Pending request stops being Pending only in the
\* completing step of a publish or in the cancel step of the unload
\* routine; no other step (no timeout) ends the wait.
C17_Step ==
    \A i \in IrpIds :
        (Pending(i) /\ ~Pending(i)') =>
            \/ \E t \in Producers : ppc[t] = "complete" /\ ppc'[t] = "release"
            \/ unloadpc = "IoCancelIrp" /\ unloadpc' # "IoCancelIrp"

\* Request i is Pending and Detach's cancel has acted on it, or a publish
\* that will find it in the slot has begun
ActedOn(i) ==
    /\ Pending(i)
    /\ \/ irp[i].Cancel
       \/ g_PendingIrp = i /\ \E t \in Producers : ppc[t] = "check"

\* C17: an Accepted WaitForNextEvent request stays outstanding until a
\* publish or a cancel acts on it (there is no timeout), and under fair
\* scheduling a request that a publish or Detach acts on after it became
\* Pending is eventually Completed.
C17_WaitEndsByPublishOrCancel ==
    /\ [][C17_Step]_vars
    /\ \A i \in IrpIds : ActedOn(i) ~> Completed(i)

\* The mailbox has been constructed: KeInitializeSpinLock has run
MailboxInitialized == loadpc = "loaded"

\* C18: the mailbox is fully constructed (slot Empty, lock initialized)
\* before the EventSource is registered, so that no publish acquires the
\* lock or reads the slot before the mailbox has been initialized: a
\* callback thread is past its acquisition only once KeInitializeSpinLock
\* has run.
C18_InitBeforeRegistration ==
    \A t \in Producers : ppc[t] # "idle" => MailboxInitialized

\* C19, the steps: the bytes a publish stores fit the buffer of the request
\* it stores them in, and the length it reports does too.
C19_Step ==
    \A t \in Producers :
        /\ (ppc[t] = "write" /\ ppc'[t] = "complete") =>
              LET p == pev'[t].pInfo IN
              /\ ~irp[p].freed
              /\ BytesStored(pev'[t]) <= irp[p].OutputBufferLength
        /\ (ppc[t] = "complete" /\ ppc'[t] = "release") =>
              \E p \in PointerRead(t) :
                /\ p # NULL
                /\ Len(completions'[p]) = Len(completions[p]) + 1
                /\ completions'[p][Len(completions'[p])].Information
                      <= irp[p].OutputBufferLength

\* C19, the state: no store of a publish went outside a live buffer, and
\* no publish stopped the machine at a store through a NULL buffer.
C19_State ==
    /\ ~corrupt
    /\ \A t \in Producers : ppc[t] = "write" => ~crashed

\* C19: a publish never writes outside the Pending request's response
\* buffer: whatever the length of the output buffer of the request in the
\* slot (smaller than a record, or none), the delivery writes at most that
\* many bytes and reports at most that many as output.
C19_WriteWithinBuffer == []C19_State /\ [][C19_Step]_vars

\* Two delivered records are of the same published event
SameEvent(c, d) ==
    \E e \in CreateEvents :
        /\ c.data.ProcessId = e.ProcessId /\ d.data.ProcessId = e.ProcessId
        /\ c.data.ParentProcessId = e.ParentProcessId
        /\ d.data.ParentProcessId = e.ParentProcessId

\* C20: the record delivered to a waiter depends only on the published
\* event: two waiters whose buffers (each large enough for the record) had
\* different prior contents and who are completed by a publish of the same
\* event receive the same record in all the bytes reported as output, the
\* image path array included, whether the event's path is shorter than 260
\* units or absent.
C20_RecordDependsOnEventOnly ==
    ~corrupt =>
        \A c, d \in Deliveries :
            (SameEvent(c, d) /\ c.Information = d.Information) =>
                c.data = d.data
====
